---- MODULE Spec2Model ----
(***************************************************************************)
(* isyntax2raw: the tile-pyramid pipeline of WriteTiles.write_pyramid and  *)
(* the bounded pool MaxQueuePool (src/isyntax2raw/__init__.py).            *)
(*                                                                         *)
(* One dispatch thread (write_pyramid) plans a level, requests its         *)
(* regions from the pixel engine, drains them with waitAny and submits one *)
(* write_tile job per region to MaxQueuePool; pool threads run the jobs.   *)
(* The pixel engine, the thread pool executor and the file system are      *)
(* libraries: they are modelled by their documented behaviour.             *)
(***************************************************************************)
EXTENDS Integers, Sequences, FiniteSets, TLC

(***************************************************************************)
(* Bounds of the model.                                                    *)
(***************************************************************************)
\* largest number of pyramid levels the engine reports
MaxLevels == 2
\* largest --max_workers value
MaxWorkers == 2
\* largest --tile_width / --tile_height
MaxTile == 3
\* largest extent (end - origin) / step of a dimension range in the pipeline
MaxExtent == 3
\* largest extent of a dimension range given to the patch planner alone
MaxPlanExtent == 6
\* largest origin of a dimension range, in units of the level's step
MaxOrigin == 1
\* largest number of patches of one level given to the patch planner alone
MaxPlanPatches == 16
\* largest number of patches of one level in the pipeline
MaxPatches == 2
\* largest default size of ThreadPoolExecutor(max_workers=None): it depends
\* on the machine, not on --max_workers
MaxPoolThreads == 2
\* largest width and height of a buffer given to make_planar alone
MaxSide == 3
\* largest first byte of such a buffer
MaxByte == 3
\* largest difference between two neighbouring bytes of such a buffer
MaxStride == 3

None == "None"

(***************************************************************************)
(* Arithmetic of the source: Python 3 true division gives a rational,      *)
(* kept here as numerator and denominator; math.ceil and int() round it.   *)
(***************************************************************************)
RECURSIVE Pow2(_)
Pow2(n) == IF n = 0 THEN 1 ELSE 2 * Pow2(n - 1)

\* a / b of Python 3
TrueDiv(a, b) == [num |-> a, den |-> b]

\* math_ceil rounding down, as floor division would
math_ceil_Floor(q) == q.num \div q.den

\* math.ceil(q), q.den > 0
math_ceil(q) == -((-q.num) \div q.den)

\* int(q): truncation towards zero, q.den > 0
int(q) == IF q.num >= 0 THEN q.num \div q.den ELSE -((-q.num) \div q.den)

Min(a, b) == IF a <= b THEN a ELSE b

\* WriteTiles.get_size: dim_range = <<origin, step, end>>
get_size(dim_range) == TrueDiv(dim_range[3] - dim_range[1], dim_range[2])

\* file_type in ("n5", "zarr")
IsChunked(file_type) == file_type \in {"n5", "zarr"}

(***************************************************************************)
(* WriteTiles.create_patch_list: the patches and the parallel identifier   *)
(* list, rows outermost (for y ... for x ...), and the column directories  *)
(* it creates through create_x_directory.                                  *)
(***************************************************************************)
\* PatchAt that does not clip the last column and row at the image end
PatchAt_NoClip(x, y, image_x_end, image_y_end, tile_size, origin, level) ==
    LET scale == Pow2(level)
        tsx == tile_size[1] * scale
        tsy == tile_size[2] * scale
        y_start == origin[2] + (y * tsy)
        x_start == origin[1] + (x * tsx)
    IN  <<x_start, (x_start + tsx) - scale, y_start, (y_start + tsy) - scale,
          level>>

\* lines 381-386: the patch of grid position (x, y)
PatchAt(x, y, image_x_end, image_y_end, tile_size, origin, level) ==
    LET scale == Pow2(level)
        tsx == tile_size[1] * scale
        tsy == tile_size[2] * scale
        y_start == origin[2] + (y * tsy)
        y_end == Min((y_start + tsy) - scale, image_y_end)
        x_start == origin[1] + (x * tsx)
        x_end == Min((x_start + tsx) - scale, image_x_end)
    IN  <<x_start, x_end, y_start, y_end, level>>

create_patch_list(image_x_end, image_y_end, tiles, tile_size, origin, level) ==
    LET n == tiles[1] * tiles[2]
        gx(k) == (k - 1) % tiles[1]
        gy(k) == (k - 1) \div tiles[1]
    IN  [patches |-> [k \in 1..n |->
                        PatchAt(gx(k), gy(k), image_x_end, image_y_end,
                                tile_size, origin, level)],
         patch_identifier |-> [k \in 1..n |-> <<gx(k), gy(k)>>]]

\* a path below slide_directory: slide/pyramid.<ext> (kind "store"),
\* slide/<level> ("level"), slide/<level>/<x> ("column") and
\* slide/<level>/<x>/<y>.<ext> ("tile"); fields that a kind lacks are -1, ""
Path(kind, level, x, y, ext) ==
    [kind |-> kind, level |-> level, x |-> x, y |-> y, ext |-> ext]

NoPath == Path("none", -1, -1, -1, "")

\* no pool.submit call in progress
NoCall == [resolution |-> -1, x_start |-> -1, y_start |-> -1,
           tile_width |-> -1, tile_height |-> -1, filename |-> NoPath,
           region |-> 0, view_range |-> <<>>]

\* the directories below slide_directory, and whether a call has raised:
\* what follows a call that raised is not executed
Disk(paths, raised) == [paths |-> paths, raised |-> raised]

\* os.mkdir(path): FileExistsError when the path exists
mkdir(fs, path) ==
    IF fs.raised THEN fs
    ELSE IF path \in fs.paths THEN Disk(fs.paths, TRUE)
    ELSE Disk(fs.paths \cup {path}, FALSE)

\* create_x_directory that does not look whether the directory exists
create_x_directory_NoLook(file_type, fs, tile_directory, x_start) ==
    IF IsChunked(file_type) THEN fs
    ELSE mkdir(fs, Path("column", tile_directory.level, x_start, -1, ""))

\* WriteTiles.create_x_directory
create_x_directory(file_type, fs, tile_directory, x_start) ==
    IF IsChunked(file_type) THEN fs
    ELSE LET x_directory == Path("column", tile_directory.level, x_start,
                                 -1, "")
         IN  IF x_directory \notin fs.paths THEN mkdir(fs, x_directory)
             ELSE fs

\* line 392, for the first k patches of create_patch_list: the k-th patch is
\* in column (k - 1) % tiles[1]
RECURSIVE ColumnDirectories(_, _, _, _, _, _)
ColumnDirectories(file_type, fs, tile_directory, tiles, tile_width, k) ==
    IF k = 0 THEN fs
    ELSE create_x_directory(
             file_type,
             ColumnDirectories(file_type, fs, tile_directory, tiles,
                               tile_width, k - 1),
             tile_directory, ((k - 1) % tiles[1]) * tile_width)

\* WriteTiles.create_tile_directory: the directory or store of a level
create_tile_directory(file_type, resolution) ==
    IF IsChunked(file_type) THEN Path("store", -1, -1, -1, file_type)
    ELSE Path("level", resolution, -1, -1, "")

\* get_tile_filename that names a tile by its column alone
get_tile_filename_NoRow(file_type, tile_directory, x_start, y_start) ==
    IF IsChunked(file_type) THEN tile_directory
    ELSE Path("tile", tile_directory.level, x_start, -1, file_type)

\* WriteTiles.get_tile_filename
get_tile_filename(file_type, tile_directory, x_start, y_start) ==
    IF IsChunked(file_type) THEN tile_directory
    ELSE Path("tile", tile_directory.level, x_start, y_start, file_type)

(***************************************************************************)
(* WriteTiles.make_planar on a numpy array of bytes; sequences are 1-based *)
(* here, so pixels[i] of the source is pixels[i + 1].                      *)
(***************************************************************************)
\* pixels[start::3]
Slice3(pixels_, start) ==
    [k \in 1..(((Len(pixels_) - start) + 2) \div 3) |->
        pixels_[(start + (3 * (k - 1))) + 1]]

\* Reshape that fills the plane column by column
Reshape_ColumnMajor(v, rows, columns) ==
    [r \in 1..rows |-> [c \in 1..columns |-> v[((c - 1) * rows) + r]]]

\* v.shape = (rows, columns): the same bytes, row by row; numpy raises
\* when the sizes do not agree
Reshape(v, rows, columns) ==
    [r \in 1..rows |-> [c \in 1..columns |-> v[((r - 1) * columns) + c]]]

\* lines 244-250: <<r, g, b>>, or "raised" when a plane cannot take the shape
make_planar(pixels_, tile_width, tile_height) ==
    LET r == Slice3(pixels_, 0)
        g == Slice3(pixels_, 1)
        b == Slice3(pixels_, 2)
    IN  IF \A v \in {r, g, b} : Len(v) = tile_height * tile_width
        THEN <<Reshape(r, tile_height, tile_width),
               Reshape(g, tile_height, tile_width),
               Reshape(b, tile_height, tile_width)>>
        ELSE "raised"

(***************************************************************************)
(* The per-level plan of write_pyramid (lines 305-326).                    *)
(***************************************************************************)
LevelPlan(dr, tile_width, tile_height, level) ==
    LET resolution_x_end == math_ceil(get_size(dr[1]))
        resolution_y_end == math_ceil(get_size(dr[2]))
        xt == math_ceil(TrueDiv(resolution_x_end, tile_width))
        yt == math_ceil(TrueDiv(resolution_y_end, tile_height))
        pl == create_patch_list(dr[1][3], dr[2][3], <<xt, yt>>,
                                <<tile_width, tile_height>>,
                                <<dr[1][1], dr[2][1]>>, level)
    IN  [resolution_x_end |-> resolution_x_end,
         resolution_y_end |-> resolution_y_end,
         x_tiles |-> xt, y_tiles |-> yt,
         patches |-> pl.patches, patch_identifier |-> pl.patch_identifier]

(***************************************************************************)
(* State.                                                                  *)
(***************************************************************************)
VARIABLES
    self,             \* the WriteTiles fields set by __init__
    engine,           \* what the pixel engine and the machine answer
    pc,               \* position of the dispatch thread in write_pyramid
    resolution,       \* loop variable of "for resolution in resolutions"
    dim_ranges,       \* source_view.dimensionRanges(resolution)
    x_tiles, y_tiles,
    tile_directory,
    patches,          \* the patch list requested from the engine
    patch_identifier, \* the pending identifiers, parallel to regions
    regions,          \* the pending region handles
    regions_ready,    \* what is left of waitAny's answer in the for loop
    call,             \* arguments of the pool.submit call in progress
    jobs,             \* the futures of the level, with their work items
    work_queue,       \* the executor's queue of work items (indices of jobs)
    pool_queue,       \* the BoundedSemaphore of MaxQueuePool
    dirs,             \* directories created
    datasets,         \* datasets created
    written,          \* tiles written
    failed,           \* tiles whose write raised
    begun,            \* levels begun so far, in order
    pixels,           \* the interleaved buffer given to make_planar
    planar            \* the array make_planar returns

vars == <<self, engine, pc, resolution, dim_ranges, x_tiles, y_tiles,
          tile_directory, patches, patch_identifier, regions, regions_ready,
          call, jobs, work_queue, pool_queue, dirs, datasets, written,
          failed, begun, pixels, planar>>

level_vars == <<dim_ranges, x_tiles, y_tiles, tile_directory, patches>>
pool_vars == <<jobs, work_queue, pool_queue>>
disk_vars == <<dirs, datasets, written, failed>>

FileTypes == {"zarr", "tiff"}

\* by how many steps the engine may narrow the decoded range of a patch
Narrowing == {0, 1}

\* the requests the engine may never answer: <<level, k>> is the region of
\* the k-th patch of a level
Requests == (0..(MaxLevels - 1)) \X (1..MaxPatches)

\* source_view.dimensionRanges(level) of the slide the engine has open:
\* <<origin, step, end>> per axis, in level-0 coordinates with the end
\* inclusive; level L has step 2^L and half the extent of level L - 1
dimensionRanges(level) ==
    LET step == Pow2(level)
        range(o, n) == <<o, step, o + ((n \div step) * step)>>
    IN  <<range(engine.origin[1], engine.extent[1]),
          range(engine.origin[2], engine.extent[2])>>

\* range(self.resolutions), or range(pe_in.numLevels()) (lines 261-264);
\* self.resolutions is <<>> for None and <<n>> for the integer n
NumResolutions ==
    IF self.resolutions = <<>> THEN engine.numLevels ELSE self.resolutions[1]

Idle ==
    /\ resolution = 0
    /\ dim_ranges = <<>>
    /\ x_tiles = 0
    /\ y_tiles = 0
    /\ tile_directory = NoPath
    /\ patches = <<>>
    /\ patch_identifier = <<>>
    /\ regions = <<>>
    /\ regions_ready = <<>>
    /\ call = NoCall
    /\ jobs = <<>>
    /\ work_queue = <<>>
    /\ pool_queue = 0
    /\ dirs = {}
    /\ datasets = {}
    /\ written = {}
    /\ failed = {}
    /\ begun = <<>>
    /\ pixels = <<>>
    /\ planar = <<>>

\* the configurations and slides of a run: the resolutions option is left
\* out or caps the levels below what the engine has; __init__ has opened
\* the engine (line 90), nothing has closed it
Runs(origins, extents, narrowings) ==
    {r \in [self : [tile_width : 1..MaxTile, tile_height : 1..MaxTile,
                    resolutions : {<<>>} \cup {<<n>> : n \in 1..MaxLevels},
                    file_type : FileTypes, max_workers : 1..MaxWorkers],
            engine : [numLevels : 1..MaxLevels,
                      IMAGE_VALID_DATA_ENVELOPES : {None, "envelopes"},
                      origin : origins \X origins,
                      extent : extents \X extents,
                      narrow : narrowings,
                      lost : {{}},
                      opens : {1}, closes : {0},
                      pool_threads : 1..MaxPoolThreads]] :
        r.self.resolutions # <<>> =>
            r.self.resolutions[1] < r.engine.numLevels}

\* the pipeline runs with square tiles on slides whose origin is 0 and whose
\* regions the engine decodes as requested
Init ==
    /\ \E r \in Runs({0}, 0..MaxExtent, {0}) :
        /\ r.self.tile_width = r.self.tile_height
        /\ self = r.self
        /\ engine = r.engine
    /\ LET p == LevelPlan(dimensionRanges(0), self.tile_width,
                          self.tile_height, 0)
       IN  p.x_tiles * p.y_tiles <= MaxPatches
    /\ pc = "start"
    /\ Idle


(***************************************************************************)
(* List operations of Python used by the dispatch loop.                    *)
(***************************************************************************)
\* list.index(v): position of the first element equal to v
IndexOf(list, v) == CHOOSE i \in 1..Len(list) :
                        /\ list[i] = v
                        /\ \A k \in 1..(i - 1) : list[k] # v

\* list.remove(v): the list without its first element equal to v
Remove(list, v) ==
    LET i == IndexOf(list, v)
    IN  SubSeq(list, 1, i - 1) \o SubSeq(list, i + 1, Len(list))

Range(list) == {list[i] : i \in 1..Len(list)}

\* every ordering of the finite set S, as sequences
RECURSIVE Orderings(_)
Orderings(S) ==
    IF S = {} THEN {<<>>}
    ELSE UNION {{<<v>> \o rest : rest \in Orderings(S \ {v})} : v \in S}

\* the pending regions the engine ever delivers: all but those of
\* engine.lost
Deliverable(pending) ==
    {region \in Range(pending) : <<resolution, region>> \notin engine.lost}

\* what pixel_engine.waitAny(regions) may return: some of the pending
\* regions, at least one, in any order; it does not return while it has
\* none to deliver
ReadyLists(pending) ==
    UNION {Orderings(T) : T \in (SUBSET Deliverable(pending)) \ {{}}}

\* region.range of the region decoded for a patch: the requested range, or a
\* narrower one with the same start
ViewRange(patch, dr) ==
    LET narrower(start, end, step) ==
            IF end - (engine.narrow * step) >= start
            THEN end - (engine.narrow * step) ELSE end
    IN  <<patch[1], narrower(patch[1], patch[2], dr[1][2]),
          patch[3], narrower(patch[3], patch[4], dr[2][2]), patch[5]>>

(***************************************************************************)
(* The dispatch thread: write_pyramid.                                     *)
(***************************************************************************)
\* WritePyramidStart without the envelope check
WritePyramidStart_NoCheck ==
    /\ pc = "start"
    /\ pc' = "plan"
    /\ UNCHANGED <<self, engine, pixels, planar,
                   resolution, level_vars, patch_identifier,
                   regions, regions_ready, call, pool_vars, disk_vars, begun>>

\* lines 252-264 and 301: the envelope check and the choice of the levels
WritePyramidStart ==
    /\ pc = "start"
    /\ pc' = IF engine.IMAGE_VALID_DATA_ENVELOPES = None
             THEN "raised"
             ELSE "plan"
    /\ UNCHANGED <<self, engine, pixels, planar,
                   resolution, level_vars, patch_identifier,
                   regions, regions_ready, call, pool_vars, disk_vars, begun>>

\* DatasetOf with the shape resolution_y_end by resolution_x_end
DatasetOf_ExclusiveShape(td, level, p) ==
    [store |-> td, key |-> level,
     shape |-> <<3, p.resolution_y_end, p.resolution_x_end>>,
     chunks |-> <<3, self.tile_height, self.tile_width>>]

\* lines 227-230, called at lines 317-319 with resolution_x_end + 1 and
\* resolution_y_end + 1: chunks=(None, ...) leaves the first axis whole
DatasetOf(td, level, p) ==
    [store |-> td, key |-> level,
     shape |-> <<3, p.resolution_y_end + 1, p.resolution_x_end + 1>>,
     chunks |-> <<3, self.tile_height, self.tile_width>>]

\* lines 232 and 392: the directories after the level has been planned
DiskPlan(level) ==
    LET p == LevelPlan(dimensionRanges(level), self.tile_width,
                       self.tile_height, level)
        td == create_tile_directory(self.file_type, level)
        fs == IF IsChunked(self.file_type) THEN Disk(dirs, FALSE)
              ELSE mkdir(Disk(dirs, FALSE), td)
    IN  ColumnDirectories(self.file_type, fs, td, <<p.x_tiles, p.y_tiles>>,
                          self.tile_width, p.x_tiles * p.y_tiles)

\* planning the level raises: os.mkdir finds the directory, or
\* create_dataset the dataset, in place
PlanRaises(level) ==
    \/ DiskPlan(level).raised
    \/ /\ IsChunked(self.file_type)
       /\ \E d \in datasets : d.key = level

\* lines 305-326: the geometry of a level, its directory or dataset, the
\* patch list and the column directories
PlanOf(level) ==
    LET dr == dimensionRanges(level)
        p == LevelPlan(dr, self.tile_width, self.tile_height, level)
        td == create_tile_directory(self.file_type, level)
    IN  /\ dim_ranges' = dr
        /\ x_tiles' = p.x_tiles
        /\ y_tiles' = p.y_tiles
        /\ tile_directory' = td
        /\ patches' = p.patches
        /\ patch_identifier' = p.patch_identifier
        /\ dirs' = DiskPlan(level).paths
        /\ datasets' = IF IsChunked(self.file_type) /\ ~PlanRaises(level)
                       THEN datasets \cup {DatasetOf(td, level, p)}
                       ELSE datasets

\* lines 302-326: the next level of the for loop is planned
PlanLevel ==
    /\ pc = "plan"
    /\ resolution < NumResolutions
    /\ PlanOf(resolution)
    /\ begun' = Append(begun, resolution)
    /\ pc' = IF PlanRaises(resolution) THEN "raised" ELSE "request"
    /\ UNCHANGED <<self, engine, pixels, planar,
                   resolution, regions, regions_ready, call,
                   pool_vars, written, failed>>

\* RequestRegions whose semaphore holds one slot too many
RequestRegions_ExtraSlot ==
    /\ pc = "request"
    /\ regions' = [k \in 1..Len(patches) |-> k]
    /\ jobs' = <<>>
    /\ work_queue' = <<>>
    /\ pool_queue' = self.max_workers + 1
    /\ pc' = "while"
    /\ UNCHANGED <<self, engine, pixels, planar,
                   resolution, level_vars, patch_identifier,
                   regions_ready, call, disk_vars, begun>>

\* lines 328-333: one region handle per patch, in the order of the patches;
\* a fresh pool whose semaphore holds max_workers slots
RequestRegions ==
    /\ pc = "request"
    /\ regions' = [k \in 1..Len(patches) |-> k]
    /\ jobs' = <<>>
    /\ work_queue' = <<>>
    /\ pool_queue' = self.max_workers
    /\ pc' = "while"
    /\ UNCHANGED <<self, engine, pixels, planar,
                   resolution, level_vars, patch_identifier,
                   regions_ready, call, disk_vars, begun>>

\* WaitAny that gives the level up when the engine delivers nothing more
WaitAny_GivesUp ==
    /\ pc = "while"
    /\ regions # <<>>
    /\ IF Deliverable(regions) = {}
       THEN /\ regions' = <<>>
            /\ regions_ready' = <<>>
            /\ pc' = "while"
       ELSE /\ \E ready \in ReadyLists(regions) : regions_ready' = ready
            /\ regions' = regions
            /\ pc' = "for"
    /\ UNCHANGED <<self, engine, pixels, planar,
                   resolution, level_vars, patch_identifier,
                   call, pool_vars, disk_vars, begun>>

\* lines 334-335
WaitAny ==
    /\ pc = "while"
    /\ regions # <<>>
    /\ \E ready \in ReadyLists(regions) : regions_ready' = ready
    /\ pc' = "for"
    /\ UNCHANGED <<self, engine, pixels, planar,
                   resolution, level_vars, patch_identifier,
                   regions, call, pool_vars, disk_vars, begun>>

\* PatchIdOf with the identifier taken at the front of the pending list
PatchIdOf_Front(region) == patch_identifier[1]

\* line 344: the identifier of a ready region, found by the position of the
\* region in the pending list
PatchIdOf(region) == patch_identifier[IndexOf(regions, region)]

\* TileJob whose size is the tile size of the run, whatever was decoded
TileJob_FullTile(region, view_range, patch_id) ==
    LET x_start == patch_id[1] * self.tile_width
        y_start == patch_id[2] * self.tile_height
    IN  [resolution |-> resolution,
         x_start |-> x_start, y_start |-> y_start,
         tile_width |-> self.tile_width, tile_height |-> self.tile_height,
         filename |-> get_tile_filename(self.file_type, tile_directory,
                                        x_start, y_start),
         region |-> region, view_range |-> view_range]

\* lines 337-347 and 353-360: the arguments of write_tile for a region; the
\* size comes from the view range, the start from the identifier
TileJob(region, view_range, patch_id) ==
    LET x_end == view_range[2]
        y_end == view_range[4]
        width == int(TrueDiv(dim_ranges[1][2] + (x_end - view_range[1]),
                             dim_ranges[1][2]))
        height == int(TrueDiv(dim_ranges[2][2] + (y_end - view_range[3]),
                              dim_ranges[2][2]))
        x_start == patch_id[1] * self.tile_width
        y_start == patch_id[2] * self.tile_height
    IN  [resolution |-> resolution,
         x_start |-> x_start, y_start |-> y_start,
         tile_width |-> width, tile_height |-> height,
         filename |-> get_tile_filename(self.file_type, tile_directory,
                                        x_start, y_start),
         region |-> region, view_range |-> view_range]

\* ProcessRegion that leaves the identifier in its list
ProcessRegion_KeepIdentifier ==
    /\ pc = "for"
    /\ regions_ready # <<>>
    /\ LET region == Head(regions_ready)
           patch_id == PatchIdOf(region)
       IN  /\ call' = TileJob(region, ViewRange(patches[region], dim_ranges),
                              patch_id)
           /\ patch_identifier' = patch_identifier
           /\ regions' = Remove(regions, region)
    /\ regions_ready' = Tail(regions_ready)
    /\ pc' = "submit"
    /\ UNCHANGED <<self, engine, pixels, planar,
                   resolution, level_vars, pool_vars,
                   disk_vars, begun>>

\* lines 336-355: one ready region: its job is made up, the region and its
\* identifier leave the pending lists
ProcessRegion ==
    /\ pc = "for"
    /\ regions_ready # <<>>
    /\ LET region == Head(regions_ready)
           patch_id == PatchIdOf(region)
       IN  /\ call' = TileJob(region, ViewRange(patches[region], dim_ranges),
                              patch_id)
           /\ patch_identifier' = Remove(patch_identifier, patch_id)
           /\ regions' = Remove(regions, region)
    /\ regions_ready' = Tail(regions_ready)
    /\ pc' = "submit"
    /\ UNCHANGED <<self, engine, pixels, planar,
                   resolution, level_vars, pool_vars,
                   disk_vars, begun>>

(***************************************************************************)
(* MaxQueuePool.submit, called at line 356.                                *)
(***************************************************************************)
\* Submit without the semaphore: the work item goes straight to the executor
Submit_NoAcquire ==
    /\ pc = "submit"
    /\ pool_queue' = pool_queue
    /\ jobs' = Append(jobs, [args |-> call, state |-> "PENDING",
                             exception |-> FALSE, busy |-> FALSE,
                             callbacks |-> 0, runs |-> 0, released |-> 0,
                             after_failure |->
                                \E t \in failed : t.resolution = resolution])
    /\ work_queue' = Append(work_queue, Len(jobs) + 1)
    /\ pc' = "add_done_callback"
    /\ UNCHANGED <<self, engine, pixels, planar,
                   resolution, level_vars, patch_identifier,
                   regions, regions_ready, call, disk_vars, begun>>

\* lines 50-52: take a slot of the semaphore, blocking while there is none,
\* then hand the work item to the executor
Submit ==
    /\ pc = "submit"
    /\ pool_queue > 0
    /\ pool_queue' = pool_queue - 1
    /\ jobs' = Append(jobs, [args |-> call, state |-> "PENDING",
                             exception |-> FALSE, busy |-> FALSE,
                             callbacks |-> 0, runs |-> 0, released |-> 0,
                             after_failure |->
                                \E t \in failed : t.resolution = resolution])
    /\ work_queue' = Append(work_queue, Len(jobs) + 1)
    /\ pc' = "add_done_callback"
    /\ UNCHANGED <<self, engine, pixels, planar,
                   resolution, level_vars, patch_identifier,
                   regions, regions_ready, call, disk_vars, begun>>

\* AddDoneCallback that only ever registers the callback
AddDoneCallback_RegisterOnly ==
    /\ pc = "add_done_callback"
    /\ pool_queue' = pool_queue
    /\ jobs' = [jobs EXCEPT ![Len(jobs)].callbacks = @ + 1]
    /\ call' = NoCall
    /\ pc' = IF regions_ready = <<>> THEN "while" ELSE "for"
    /\ UNCHANGED <<self, engine, pixels, planar,
                   resolution, level_vars, patch_identifier,
                   regions, regions_ready, work_queue, disk_vars, begun>>

\* lines 53-59: Future.add_done_callback registers the callback, or calls it
\* at once when the future is already finished
AddDoneCallback ==
    /\ pc = "add_done_callback"
    /\ LET j == Len(jobs)
       IN  IF jobs[j].state = "FINISHED"
           THEN /\ pool_queue' = pool_queue + 1
                /\ jobs' = [jobs EXCEPT ![j].released = @ + 1]
           ELSE /\ pool_queue' = pool_queue
                /\ jobs' = [jobs EXCEPT ![j].callbacks = @ + 1]
    /\ call' = NoCall
    /\ pc' = IF regions_ready = <<>> THEN "while" ELSE "for"
    /\ UNCHANGED <<self, engine, pixels, planar,
                   resolution, level_vars, patch_identifier,
                   regions, regions_ready, work_queue, disk_vars, begun>>

\* ExitPool that waits for nothing and goes on to the next level
ExitPool_NoBarrier ==
    /\ pc = "while"
    /\ regions = <<>>
    /\ resolution' = resolution + 1
    /\ pc' = IF resolution + 1 < NumResolutions THEN "plan" ELSE "done"
    /\ UNCHANGED <<self, engine, pixels, planar,
                   level_vars, patch_identifier, regions,
                   regions_ready, call, pool_vars, disk_vars, begun>>

\* lines 64-65, leaving the with block of line 333: Executor.__exit__ is
\* shutdown(wait=True), which joins the pool's threads
ExitPool ==
    /\ pc = "while"
    /\ regions = <<>>
    /\ work_queue = <<>>
    /\ \A j \in 1..Len(jobs) : ~jobs[j].busy
    /\ pc' = "wait"
    /\ UNCHANGED <<self, engine, pixels, planar,
                   resolution, level_vars, patch_identifier,
                   regions, regions_ready, call, pool_vars, disk_vars, begun>>

\* line 361, then back to line 302
WaitJobs ==
    /\ pc = "wait"
    /\ \A j \in 1..Len(jobs) : jobs[j].state = "FINISHED"
    /\ resolution' = resolution + 1
    /\ pc' = IF resolution + 1 < NumResolutions THEN "plan" ELSE "done"
    /\ UNCHANGED <<self, engine, pixels, planar,
                   level_vars, patch_identifier, regions,
                   regions_ready, call, pool_vars, disk_vars, begun>>

(***************************************************************************)
(* The threads of the ThreadPoolExecutor.                                  *)
(***************************************************************************)
BusyThreads == Cardinality({j \in 1..Len(jobs) : jobs[j].busy})

\* StartJob that leaves a work item in the queue the first time it runs it
StartJob_Twice ==
    /\ work_queue # <<>>
    /\ BusyThreads < engine.pool_threads
    /\ LET j == Head(work_queue)
       IN  /\ jobs' = [jobs EXCEPT ![j].state = "RUNNING", ![j].busy = TRUE,
                                   ![j].runs = @ + 1]
           /\ work_queue' = IF jobs[j].runs = 0 THEN work_queue
                            ELSE Tail(work_queue)
    /\ UNCHANGED <<self, engine, pixels, planar,
                   pc, resolution, level_vars,
                   patch_identifier, regions, regions_ready, call,
                   pool_queue, disk_vars, begun>>

\* a free thread takes the oldest work item and starts write_tile
StartJob ==
    /\ work_queue # <<>>
    /\ BusyThreads < engine.pool_threads
    /\ LET j == Head(work_queue)
       IN  jobs' = [jobs EXCEPT ![j].state = "RUNNING", ![j].busy = TRUE,
                                ![j].runs = @ + 1]
    /\ work_queue' = Tail(work_queue)
    /\ UNCHANGED <<self, engine, pixels, planar,
                   pc, resolution, level_vars,
                   patch_identifier, regions, regions_ready, call,
                   pool_queue, disk_vars, begun>>

\* write_tile without the try block: the exception leaves write_tile
write_tile_NoCatch(raises) == IF raises THEN "raised" ELSE "ok"

\* write_tile, lines 266-299: "ok" when the tile is written; when the
\* deinterleave or the write raises, the except clause catches and prints,
\* and write_tile returns normally ("caught") instead of raising ("raised")
write_tile(raises) == IF raises THEN "caught" ELSE "ok"

\* a pool thread runs write_tile to its end and finishes the future, with
\* the exception when write_tile raised
FinishJob(j) ==
    /\ jobs[j].state = "RUNNING"
    /\ \E raises \in BOOLEAN :
        LET outcome == write_tile(raises)
        IN  /\ written' = IF outcome = "ok"
                          THEN written \cup {jobs[j].args} ELSE written
            /\ failed' = IF outcome = "ok"
                         THEN failed ELSE failed \cup {jobs[j].args}
            /\ jobs' = [jobs EXCEPT ![j].state = "FINISHED",
                                    ![j].exception = (outcome = "raised")]
    /\ UNCHANGED <<self, engine, pixels, planar,
                   pc, resolution, level_vars,
                   patch_identifier, regions, regions_ready, call,
                   work_queue, pool_queue, dirs, datasets, begun>>

\* lines 57-59: the thread that finished the future calls the callbacks
\* registered on it; pool_queue_callback releases one slot
InvokeCallbacks(j) ==
    /\ jobs[j].state = "FINISHED"
    /\ jobs[j].busy
    /\ pool_queue' = pool_queue + jobs[j].callbacks
    /\ jobs' = [jobs EXCEPT ![j].busy = FALSE,
                            ![j].released = @ + jobs[j].callbacks]
    /\ UNCHANGED <<self, engine, pixels, planar,
                   pc, resolution, level_vars,
                   patch_identifier, regions, regions_ready, call,
                   work_queue, disk_vars, begun>>

Worker ==
    \/ StartJob
    \/ \E j \in 1..Len(jobs) : FinishJob(j)
    \/ \E j \in 1..Len(jobs) : InvokeCallbacks(j)

Dispatch ==
    \/ WritePyramidStart
    \/ PlanLevel
    \/ RequestRegions
    \/ WaitAny
    \/ ProcessRegion
    \/ Submit
    \/ AddDoneCallback
    \/ ExitPool
    \/ WaitJobs

Next == Dispatch \/ Worker

Spec == Init /\ [][Next]_vars

(***************************************************************************)
(* The patch planner and the job geometry on their own: every level of a   *)
(* slide is planned, and the job of every region of the plan is made up,   *)
(* for a wider choice of slides than the pipeline above runs through.      *)
(***************************************************************************)
PlanInit ==
    /\ \E r \in Runs(0..MaxOrigin, 0..MaxPlanExtent, Narrowing) :
        /\ r.self.max_workers = 1
        /\ r.self.resolutions = <<>>
        /\ r.engine.numLevels = MaxLevels
        /\ r.engine.pool_threads = 1
        /\ r.engine.IMAGE_VALID_DATA_ENVELOPES # None
        /\ self = r.self
        /\ engine = r.engine
    /\ LET p == LevelPlan(dimensionRanges(0), self.tile_width,
                          self.tile_height, 0)
       IN  p.x_tiles * p.y_tiles <= MaxPlanPatches
    /\ pc = "planner"
    /\ Idle

\* lines 302-330 for the next level: the levels are planned in their order
PlanApply ==
    /\ pc = "planner"
    /\ \E level \in 0..(NumResolutions - 1) :
        /\ level = (IF dim_ranges # <<>> THEN resolution + 1 ELSE 0)
        /\ ~PlanRaises(level)
        /\ resolution' = level
        /\ PlanOf(level)
    /\ regions' = [k \in 1..Len(patches') |-> k]
    /\ call' = NoCall
    /\ UNCHANGED <<self, engine, pixels, planar,
                   pc, regions_ready, pool_vars, written,
                   failed, begun>>

\* lines 337-360 for any one region of the planned level
MeasureRegion ==
    /\ pc = "planner"
    /\ \E region \in Range(regions) :
        call' = TileJob(region, ViewRange(patches[region], dim_ranges),
                        PatchIdOf(region))
    /\ UNCHANGED <<self, engine, pixels, planar,
                   pc, resolution, level_vars,
                   patch_identifier, regions, regions_ready, pool_vars,
                   disk_vars, begun>>

PlanNext == PlanApply \/ MeasureRegion

PlanSpec == PlanInit /\ [][PlanNext]_vars

(***************************************************************************)
(* The pipeline under fair scheduling: a thread that can take a step       *)
(* eventually takes one.                                                   *)
(***************************************************************************)
\* The pool is made anew for every level and does not look at the file
\* type: one level of a chunked store is run.
FairInit ==
    /\ Init
    /\ engine.numLevels = 1
    /\ self.file_type = "zarr"

FairSpec ==
    FairInit /\ [][Next]_vars /\ WF_vars(Dispatch) /\ WF_vars(Worker)

(***************************************************************************)
(* The command write_tiles (cli/isyntax2raw.py): it makes the WriteTiles   *)
(* object, runs write_pyramid inside its with block and leaves the block.  *)
(***************************************************************************)
\* the parameters of WriteTiles.__init__ after self (lines 70-73)
InitParameters ==
    <<"tile_width", "tile_height", "resolutions", "file_type", "max_workers",
      "input_path", "output_path">>

\* the values write_tiles calls WriteTiles with (cli lines 66-69)
WriteTilesArguments ==
    <<"tile_width", "tile_height", "resolutions", "file_type", "max_workers",
      "batch_size", "input_path", "output_path">>

\* before the call of WriteTiles: no engine is open
CliInit ==
    /\ \E r \in Runs({0}, 0..MaxExtent, {0}) :
        /\ self = r.self
        /\ engine = [r.engine EXCEPT !.opens = 0]
    /\ pc = "write_tiles"
    /\ Idle

\* cli lines 66-69: the call of WriteTiles. Python raises TypeError, before
\* the body of __init__, when the values are not as many as the parameters;
\* else __init__ opens the engine (line 90) and the with block is entered
CallWriteTiles ==
    /\ pc = "write_tiles"
    /\ IF Len(WriteTilesArguments) # Len(InitParameters)
       THEN /\ pc' = "TypeError"
            /\ engine' = engine
       ELSE /\ pc' = "start"
            /\ engine' = [engine EXCEPT !.opens = @ + 1]
    /\ UNCHANGED <<self, pixels, planar, resolution, level_vars,
                   patch_identifier, regions, regions_ready, call, pool_vars,
                   disk_vars, begun>>

\* lines 95-96: __exit__, when write_pyramid has returned or raised
WriteTilesExit ==
    /\ pc \in {"done", "raised"}
    /\ engine' = [engine EXCEPT !.closes = @ + 1]
    /\ pc' = "exited"
    /\ UNCHANGED <<self, pixels, planar, resolution, level_vars,
                   patch_identifier, regions, regions_ready, call, pool_vars,
                   disk_vars, begun>>

CliNext == CallWriteTiles

CliSpec == CliInit /\ [][CliNext]_vars

\* a WriteTiles object made with seven values, used as the command uses it
ScopeNext == Next \/ WriteTilesExit

ScopeSpec == Init /\ [][ScopeNext]_vars

(***************************************************************************)
(* The pipeline, under fair scheduling, with an engine that may leave one  *)
(* request unanswered.                                                     *)
(***************************************************************************)
StallInit ==
    /\ \E r \in Runs({0}, 0..MaxExtent, {0}),
          unanswered \in {{}} \cup {{q} : q \in Requests} :
        /\ r.self.tile_width = 1
        /\ r.self.tile_height = 1
        /\ r.self.file_type = "tiff"
        /\ r.self.resolutions = <<>>
        /\ r.self.max_workers = 1
        /\ r.engine.numLevels = MaxLevels
        /\ r.engine.IMAGE_VALID_DATA_ENVELOPES # None
        /\ r.engine.pool_threads = 1
        /\ self = r.self
        /\ engine = [r.engine EXCEPT !.lost = unanswered]
    /\ LET p == LevelPlan(dimensionRanges(0), self.tile_width,
                          self.tile_height, 0)
       IN  p.x_tiles * p.y_tiles <= MaxPatches
    /\ pc = "start"
    /\ Idle

StallSpec ==
    StallInit /\ [][Next]_vars /\ WF_vars(Dispatch) /\ WF_vars(Worker)

(***************************************************************************)
(* make_planar on its own, as write_tile calls it at lines 276 and 283: on *)
(* a buffer of 3 * tile_width * tile_height bytes (line 342). The buffers  *)
(* are the arithmetic progressions of bytes, first + i * stride modulo     *)
(* 256: no byte is found at two places of such a buffer.                   *)
(***************************************************************************)
PlanarInit ==
    /\ \E r \in Runs({0}, {0}, {0}) :
        /\ r.self.tile_width = 1
        /\ r.self.tile_height = 1
        /\ r.self.resolutions = <<>>
        /\ r.self.max_workers = 1
        /\ r.engine.numLevels = 1
        /\ r.engine.pool_threads = 1
        /\ r.engine.IMAGE_VALID_DATA_ENVELOPES # None
        /\ self = r.self
        /\ engine = r.engine
    /\ pc = "write_tile"
    /\ resolution = 0
    /\ dim_ranges = <<>>
    /\ x_tiles = 0
    /\ y_tiles = 0
    /\ tile_directory = NoPath
    /\ patches = <<>>
    /\ patch_identifier = <<>>
    /\ regions = <<>>
    /\ regions_ready = <<>>
    /\ jobs = <<>>
    /\ work_queue = <<>>
    /\ pool_queue = 0
    /\ dirs = {}
    /\ datasets = {}
    /\ written = {}
    /\ failed = {}
    /\ begun = <<>>
    /\ \E width \in 1..MaxSide, height \in 1..MaxSide,
          first \in 0..MaxByte, stride \in 1..MaxStride :
        /\ call = [NoCall EXCEPT !.tile_width = width,
                                 !.tile_height = height]
        /\ pixels = [i \in 1..((width * height) * 3) |->
                        (first + ((i - 1) * stride)) % 256]
    /\ planar = <<>>

\* line 276 or 283
MakePlanar ==
    /\ pc = "write_tile"
    /\ planar' = make_planar(pixels, call.tile_width, call.tile_height)
    /\ pc' = "planar"
    /\ UNCHANGED <<self, engine, pixels, resolution, level_vars,
                   patch_identifier, regions, regions_ready, call, pool_vars,
                   disk_vars, begun>>

PlanarNext == MakePlanar

PlanarSpec == PlanarInit /\ [][PlanarNext]_vars

(***************************************************************************)
(* The pipeline on one slide of two levels: level 0 has 600 x 600 pixels,  *)
(* its dimension ranges being <<0, 1, 599>> with the end inclusive, level  *)
(* 1 has 300 x 300, <<0, 2, 598>>; the tiles are 512 x 512.                *)
(***************************************************************************)
ScenarioInit ==
    /\ self \in [tile_width : {512}, tile_height : {512},
                 resolutions : {<<>>}, file_type : FileTypes,
                 max_workers : {MaxWorkers}]
    /\ engine \in [numLevels : {2},
                   IMAGE_VALID_DATA_ENVELOPES : {"envelopes"},
                   origin : {<<0, 0>>}, extent : {<<599, 599>>},
                   narrow : {0}, lost : {{}}, opens : {1}, closes : {0},
                   pool_threads : {1}]
    /\ pc = "start"
    /\ Idle

ScenarioSpec == ScenarioInit /\ [][Next]_vars

(***************************************************************************)
(* Properties.                                                             *)
(***************************************************************************)
JobIds == 1..Len(jobs)

\* the jobs MaxQueuePool.submit has accepted whose future is not finished
Unfinished == {j \in JobIds : jobs[j].state # "FINISHED"}

\* the jobs whose write_tile is executing
Running == {j \in JobIds : jobs[j].state = "RUNNING"}

\* the dispatch thread is between two levels, or past the last one
BetweenLevels == pc \in {"plan", "request", "done"}

\* C1: at every moment the accepted jobs whose future is not finished are at
\* most max_workers, so at most max_workers executions of write_tile run at
\* once; and a submit call made while they are exactly max_workers cannot
\* return: it can take no step until a job completes.
C1_BoundedPool ==
    /\ Cardinality(Unfinished) <= self.max_workers
    /\ Cardinality(Running) <= self.max_workers
    /\ (pc = "submit" /\ Cardinality(Unfinished) = self.max_workers)
          => ~ENABLED Submit

\* C1 witness: a submit call blocked behind max_workers unfinished jobs, with
\* more pool threads than max_workers
C1_Witness ==
    /\ pc = "submit"
    /\ Cardinality(Unfinished) = self.max_workers
    /\ Cardinality(Running) = self.max_workers
    /\ engine.pool_threads > self.max_workers

\* the number of levels of a run: the resolutions option, else numLevels
LevelCount ==
    IF self.resolutions # <<>> THEN self.resolutions[1] ELSE engine.numLevels

\* C2: the levels are begun in the order 0, 1, ... and never beyond N - 1,
\* a finished run has begun all N; every job, written tile, failed tile,
\* directory and dataset belongs to a level begun so far, an unfinished job
\* to the last one begun; and between two levels (from the end of a level's
\* barrier until the next level's regions are requested) no job is
\* unfinished.
C2_LevelBarrier ==
    /\ \A i \in 1..Len(begun) : begun[i] = i - 1
    /\ Len(begun) <= LevelCount
    /\ pc = "done" => Len(begun) = LevelCount
    /\ pc \in {"request", "while", "for", "submit", "add_done_callback", "wait"}
          => /\ begun # <<>>
             /\ resolution = begun[Len(begun)]
    /\ \A j \in JobIds :
          /\ jobs[j].args.resolution \in Range(begun)
          /\ j \in Unfinished => jobs[j].args.resolution = begun[Len(begun)]
          /\ j \in Unfinished => ~BetweenLevels
          /\ pc = "request" => jobs[j].args.resolution < resolution
    /\ \A t \in written \cup failed : t.resolution \in Range(begun)
    /\ \A d \in dirs : d.level \in Range(begun)
    /\ \A d \in datasets : d.key \in Range(begun)

\* C2 witness: the second level is planned after a first level that had two
\* jobs
C2_Witness ==
    /\ pc = "request"
    /\ begun = <<0, 1>>
    /\ Len(jobs) = 2

\* C3 (safety): no job runs twice, a finished job has run once, and when the
\* with block of the pool has been left every region of the level has
\* become a job that has run exactly once and is finished.
C3_Safety ==
    /\ \A j \in JobIds :
          /\ jobs[j].runs <= 1
          /\ jobs[j].state # "PENDING" => jobs[j].runs = 1
    /\ pc = "wait" => Len(jobs) = Len(patches)
    /\ (pc = "wait" \/ BetweenLevels) =>
          \A j \in JobIds : /\ jobs[j].state = "FINISHED"
                            /\ jobs[j].runs = 1
                            /\ ~jobs[j].busy

\* C3: every job given to submit is executed exactly once, the with block is
\* left only when every accepted job has finished, and under fair
\* scheduling every submit call returns.
C3_ExactlyOnce ==
    /\ []C3_Safety
    /\ (pc = "submit") ~> (pc = "add_done_callback")

\* C3 witness: the with block has been left after two jobs, the second of
\* which had to wait for a slot
C3_Witness ==
    /\ pc = "wait"
    /\ Len(jobs) = 2
    /\ self.max_workers = 1

\* C4: whatever waitAny delivers, the start coordinates of every job are the
\* grid position of the patch that was requested for the job's region: the
\* patch starts at origin + start * step on both axes.
C4_JobCoordinates ==
    \A a \in {jobs[j].args : j \in JobIds}
             \cup (IF pc = "submit" THEN {call} ELSE {}) :
        a.resolution = resolution =>
            /\ patches[a.region][1]
                  = dim_ranges[1][1] + (a.x_start * dim_ranges[1][2])
            /\ patches[a.region][3]
                  = dim_ranges[2][1] + (a.y_start * dim_ranges[2][2])

\* C4 witness: the region of the second patch is delivered and submitted
\* first, the region of the first patch after it
C4_Witness ==
    /\ Len(jobs) = 2
    /\ jobs[1].args.region = 2
    /\ jobs[2].args.region = 1
    /\ jobs[1].args.resolution = resolution

(***************************************************************************)
(* The geometry of a planned level, in pixels of the level: pixel i of an  *)
(* axis lies at the level-0 coordinate origin + i * step.                  *)
(***************************************************************************)
Planned == dim_ranges # <<>>

\* ceil((end - origin) / step): the least r with r * step >= end - origin
ExtentOf(dim_range) ==
    CHOOSE r \in 0..(dim_range[3] - dim_range[1]) :
        /\ r * dim_range[2] >= dim_range[3] - dim_range[1]
        /\ \A q \in 0..(r - 1) : q * dim_range[2] < dim_range[3] - dim_range[1]

resolutionXEnd == ExtentOf(dim_ranges[1])
resolutionYEnd == ExtentOf(dim_ranges[2])

\* the pixels of the level that lie inside a patch, both ends inclusive
PixelsOf(patch) ==
    {c \in (0..resolutionXEnd) \X (0..resolutionYEnd) :
        /\ patch[1] <= dim_ranges[1][1] + (c[1] * dim_ranges[1][2])
        /\ dim_ranges[1][1] + (c[1] * dim_ranges[1][2]) <= patch[2]
        /\ patch[3] <= dim_ranges[2][1] + (c[2] * dim_ranges[2][2])
        /\ dim_ranges[2][1] + (c[2] * dim_ranges[2][2]) <= patch[4]}

PatchesDisjoint ==
    \A i, k \in 1..Len(patches) :
        i # k => PixelsOf(patches[i]) \cap PixelsOf(patches[k]) = {}

\* C5: the patches of a level are pairwise disjoint and their union is
\* [0, resolutionXEnd) x [0, resolutionYEnd).
C5_Partition ==
    Planned =>
        /\ PatchesDisjoint
        /\ UNION {PixelsOf(patches[k]) : k \in 1..Len(patches)}
              = (0..(resolutionXEnd - 1)) \X (0..(resolutionYEnd - 1))

\* C6: an exception raised by the deinterleave or the write never reaches
\* the future; every finished job has either written its tile or recorded
\* the failure; when the with block is left every region of the level has a
\* finished job, so every tile but the failed ones is written; and no job is
\* unfinished between two levels.
C6_FailureIsolation ==
    /\ \A j \in JobIds :
          /\ ~jobs[j].exception
          /\ jobs[j].state = "FINISHED" =>
                (jobs[j].args \in written) # (jobs[j].args \in failed)
    /\ pc = "wait" =>
          /\ {jobs[j].args.region : j \in JobIds} = 1..Len(patches)
          /\ \A j \in JobIds : jobs[j].state = "FINISHED"
    /\ BetweenLevels => Unfinished = {}

\* C6 witness: the with block is left after a tile failed and a tile that
\* was submitted after that failure has been written
C6_Witness ==
    /\ pc = "wait"
    /\ \E i, j \in JobIds :
          /\ jobs[i].args \in failed
          /\ jobs[j].after_failure
          /\ jobs[j].args \in written

\* the jobs of the level in progress, the one being submitted included
LevelJobs ==
    {jobs[j].args : j \in JobIds}
        \cup (IF pc \in {"submit"} THEN {call} ELSE {})

\* the index ranges of two jobs overlap
Overlap(a, b) ==
    /\ a.x_start < b.x_start + b.tile_width
    /\ b.x_start < a.x_start + a.tile_width
    /\ a.y_start < b.y_start + b.tile_height
    /\ b.y_start < a.y_start + a.tile_height

\* C7: no two jobs of a level share a destination: distinct file paths for
\* the discrete formats, disjoint index ranges
\* [y_start, y_start + height) x [x_start, x_start + width) of the dataset
\* for the chunked ones.
C7_DisjointDestinations ==
    \A a, b \in LevelJobs :
        a.region # b.region =>
            IF IsChunked(self.file_type)
            THEN ~Overlap(a, b)
            ELSE a.filename # b.filename

\* C7 witness: two writers of one chunked dataset run at the same time
C7_Witness ==
    /\ IsChunked(self.file_type)
    /\ \E i, j \in Running : i # j

\* C8: x_tiles = ceil(resolutionXEnd / tile_width) and the same for y;
\* create_patch_list returns x_tiles * y_tiles patches and as many
\* identifiers, every (x, y) of the grid exactly once.
C8_GridCount ==
    Planned =>
        /\ x_tiles * self.tile_width >= resolutionXEnd
        /\ (x_tiles - 1) * self.tile_width < resolutionXEnd \/ x_tiles = 0
        /\ y_tiles * self.tile_height >= resolutionYEnd
        /\ (y_tiles - 1) * self.tile_height < resolutionYEnd \/ y_tiles = 0
        /\ Len(patches) = x_tiles * y_tiles
        /\ pc = "planner" =>
              /\ Len(patch_identifier) = Len(patches)
              /\ \A i, k \in 1..Len(patch_identifier) :
                    i # k => patch_identifier[i] # patch_identifier[k]
              /\ Range(patch_identifier)
                    = (0..(x_tiles - 1)) \X (0..(y_tiles - 1))

\* C8 witness: a level whose extent is no multiple of the tile size on
\* either axis, with several columns and rows
C8_Witness ==
    /\ Planned
    /\ x_tiles >= 2
    /\ y_tiles >= 2
    /\ resolutionXEnd % self.tile_width # 0
    /\ resolutionYEnd % self.tile_height # 0
    /\ resolution > 0

\* C9: when the extent is no multiple of the tile size and the engine
\* decodes exactly the requested patch, the job of the last column is
\* resolutionXEnd - (x_tiles - 1) * tile_width wide, and the job of the last
\* row resolutionYEnd - (y_tiles - 1) * tile_height high.
C9_ClippedSize ==
    (Planned /\ call.region # 0 /\ call.resolution = resolution
        /\ call.view_range = patches[call.region]) =>
        /\ (/\ resolutionXEnd % self.tile_width # 0
            /\ call.x_start = (x_tiles - 1) * self.tile_width)
              => call.tile_width
                    = resolutionXEnd - ((x_tiles - 1) * self.tile_width)
        /\ (/\ resolutionYEnd % self.tile_height # 0
            /\ call.y_start = (y_tiles - 1) * self.tile_height)
              => call.tile_height
                    = resolutionYEnd - ((y_tiles - 1) * self.tile_height)

\* C10: with no valid data envelopes write_pyramid raises at once: no level
\* is begun, no directory or dataset is created, no region is requested, no
\* pool is started, no tile is written, and nothing follows the error.
C10_NoEnvelopesIsFatal ==
    engine.IMAGE_VALID_DATA_ENVELOPES = None =>
        /\ pc \in {"start", "raised"}
        /\ begun = <<>>
        /\ dirs = {} /\ datasets = {}
        /\ patches = <<>> /\ regions = <<>> /\ regions_ready = <<>>
        /\ jobs = <<>> /\ work_queue = <<>> /\ pool_queue = 0
        /\ written = {} /\ failed = {}
        /\ pc = "raised" => ~ENABLED Next

\* C10 witness: the error has been raised
C10_Witness ==
    /\ pc = "raised"
    /\ engine.IMAGE_VALID_DATA_ENVELOPES = None

(***************************************************************************)
(* The slide of two levels, 600 x 600 and 300 x 300 pixels, in tiles of    *)
(* 512 x 512.                                                              *)
(***************************************************************************)
\* the tile files <level>/<x>/<y>.<ext> of the slide
ScenarioTiles ==
    {Path("tile", 0, 0, 0, self.file_type),
     Path("tile", 0, 0, 512, self.file_type),
     Path("tile", 0, 512, 0, self.file_type),
     Path("tile", 0, 512, 512, self.file_type),
     Path("tile", 1, 0, 0, self.file_type)}

\* the tiles handed to write_tile so far
TilesSoFar == written \cup failed \cup LevelJobs

Interleave(array, width, height) ==
    [i \in 1..((width * height) * 3) |->
        array[((i - 1) % 3) + 1]
             [(((i - 1) \div 3) \div width) + 1]
             [(((i - 1) \div 3) % width) + 1]]

\* C13: for a buffer of 3 * width * height bytes make_planar returns three
\* planes of height rows and width columns, plane c holding at (row, col)
\* the byte 3 * (row * width + col) + c of the buffer; interleaving the
\* planes again gives the buffer back.
C13_PlanarRoundTrip ==
    pc = "planar" =>
        LET width == call.tile_width
            height == call.tile_height
        IN  /\ planar # "raised"
            /\ Len(planar) = 3
            /\ \A c \in 0..2 :
                  /\ Len(planar[c + 1]) = height
                  /\ \A row \in 0..(height - 1) :
                        /\ Len(planar[c + 1][row + 1]) = width
                        /\ \A col \in 0..(width - 1) :
                              planar[c + 1][row + 1][col + 1]
                                = pixels[((3 * ((row * width) + col)) + c) + 1]
            /\ Interleave(planar, width, height) = pixels

\* C13 witness: a buffer of a tile that is wider than high, no two bytes of
\* which are equal, has been made planar
C13_Witness ==
    /\ pc = "planar"
    /\ call.tile_width = 3
    /\ call.tile_height = 2
    /\ \A i, k \in 1..Len(pixels) : i # k => pixels[i] # pixels[k]

(***************************************************************************)
(* Regions the engine never delivers.                                      *)
(***************************************************************************)
\* the dispatch thread is in the loop of lines 334-360
InLoop == pc \in {"while", "for", "submit", "add_done_callback"}

\* the number of regions requested for a level
RequestedAt(level) ==
    Len(LevelPlan(dimensionRanges(level), self.tile_width, self.tile_height,
                  level).patches)

\* the requests of the run that the engine never answers
Unanswered ==
    {q \in engine.lost : q[1] < NumResolutions /\ q[2] <= RequestedAt(q[1])}

\* C14 (safety): the loop of a level is left only with an empty pending
\* list; a region that waitAny never returns stays pending, so that once
\* its level has requested it the dispatch thread stays in the loop of that
\* level: the barrier is not passed, no later level is begun and the run
\* does not finish.
C14_Safety ==
    /\ pc = "wait" => regions = <<>> /\ regions_ready = <<>>
    /\ \A q \in Unanswered :
          /\ \A level \in Range(begun) : level <= q[1]
          /\ pc # "done"
          /\ (resolution = q[1] /\ pc \notin {"start", "plan", "request"}) =>
                /\ InLoop
                /\ q[2] \in Range(regions)

\* C14: the safety part always holds, and under fair scheduling a run whose
\* requests are all answered reaches the end of write_pyramid.
C14_Termination ==
    /\ []C14_Safety
    /\ (pc = "start" /\ Unanswered = {}) ~> (pc = "done")

\* C14 witness: the second region of a level has been written, the first is
\* never delivered: the dispatch thread waits in waitAny and nothing in the
\* program can take a step
C14_Witness ==
    /\ pc = "while"
    /\ regions = <<1>>
    /\ <<resolution, 1>> \in engine.lost
    /\ Len(jobs) = 1
    /\ jobs[1].args \in written
    /\ ~ENABLED Next

(***************************************************************************)
(* The slots of the semaphore.                                             *)
(***************************************************************************)
\* a pool of the level exists: from line 333 to line 361
PoolOpen == InLoop \/ pc = "wait"

\* the accepted jobs whose slot has not been given back
HoldingSlot == {j \in JobIds : jobs[j].released = 0}

\* C15 as stated: at every moment the free slots are max_workers minus the
\* number of accepted jobs that are not finished.
C15_SlotsEqualUnfinished ==
    PoolOpen => pool_queue = self.max_workers - Cardinality(Unfinished)

\* C15, amended: the slot of a job is given back exactly once, by its
\* done-callback, which runs after the job has finished, or at registration
\* when the job had finished before; the free slots stay in 0..max_workers
\* and are max_workers minus the number of accepted jobs whose callback has
\* not run, so at most max_workers minus the number of unfinished jobs; they
\* are max_workers again when the with block of the level has been left.
C15_SlotRelease ==
    /\ pool_queue \in 0..self.max_workers
    /\ \A j \in JobIds :
          /\ jobs[j].released <= 1
          /\ jobs[j].callbacks <= 1
          /\ jobs[j].state # "FINISHED" => jobs[j].released = 0
          /\ (jobs[j].released = 0 /\ j # Len(jobs)) => jobs[j].callbacks = 1
    /\ PoolOpen =>
          /\ pool_queue = self.max_workers - Cardinality(HoldingSlot)
          /\ pool_queue <= self.max_workers - Cardinality(Unfinished)
    /\ (pc = "wait" \/ (BetweenLevels /\ jobs # <<>>)) =>
          /\ \A j \in JobIds : jobs[j].released = 1
          /\ pool_queue = self.max_workers

\* C15 witness: the with block has been left; one job had finished before
\* its callback was registered, another had failed, both gave the slot back
C15_Witness ==
    /\ pc = "wait"
    /\ \E i, j \in JobIds :
          /\ jobs[i].callbacks = 0
          /\ jobs[i].released = 1
          /\ jobs[j].args \in failed
          /\ jobs[j].released = 1
    /\ pool_queue = self.max_workers

(***************************************************************************)
(* The two pending lists of the dispatch loop.                             *)
(***************************************************************************)
\* the identifiers as create_patch_list returned them for the level:
\* entry k belongs to the k-th patch, whose region is the handle k
IdentifiersOfLevel ==
    LevelPlan(dim_ranges, self.tile_width, self.tile_height,
              resolution).patch_identifier

\* what has become of a region: how often it is pending, is the argument of
\* the submit call in progress, is the job of an accepted future
Pending(region) == Cardinality({i \in 1..Len(regions) : regions[i] = region})
InCall(region) == IF pc = "submit" /\ call.region = region THEN 1 ELSE 0
Submitted(region) == Cardinality({j \in JobIds : jobs[j].args.region = region})

\* C16: in the loop the two pending lists have the same length and entry i
\* of the identifiers is the identifier of the patch of entry i of the
\* regions; the ready regions are pending; every requested region is
\* pending, or has left both lists and become one job, never both and never
\* twice; when the loop is left the jobs are as many as the regions
\* requested.
C16_AlignedLists ==
    (InLoop \/ pc = "wait") =>
        LET identifiers == IdentifiersOfLevel
        IN  /\ Len(regions) = Len(patch_identifier)
            /\ \A i \in 1..Len(regions) :
                  /\ regions[i] \in 1..Len(patches)
                  /\ patch_identifier[i] = identifiers[regions[i]]
            /\ Range(regions_ready) \subseteq Range(regions)
            /\ \A i, k \in 1..Len(regions_ready) :
                  i # k => regions_ready[i] # regions_ready[k]
            /\ \A region \in 1..Len(patches) :
                  /\ Pending(region) + InCall(region) + Submitted(region) = 1
                  /\ \A j \in JobIds :
                        jobs[j].args.region = region =>
                            /\ jobs[j].args.x_start
                                  = identifiers[region][1] * self.tile_width
                            /\ jobs[j].args.y_start
                                  = identifiers[region][2] * self.tile_height
            /\ pc = "wait" => Len(jobs) = Len(patches)

\* C16 witness: of two regions the second has been delivered and processed
\* alone, the first is still pending with its identifier
C16_Witness ==
    /\ pc = "submit"
    /\ call.region = 2
    /\ regions = <<1>>
    /\ patch_identifier = <<IdentifiersOfLevel[1]>>
    /\ jobs = <<>>

(***************************************************************************)
(* The decoded pixel buffers. A buffer is allocated and filled at lines    *)
(* 343 and 350, is an argument of pool.submit at line 356 and then of the  *)
(* job, whose write_tile is the last to use it.                            *)
(***************************************************************************)
\* the regions whose buffer is filled and whose write has not finished: the
\* one of the submit call in progress and those of the unfinished jobs
FilledBuffers ==
    {jobs[j].args.region : j \in Unfinished}
        \cup (IF pc = "submit" THEN {call.region} ELSE {})

\* C17: at every moment the buffers that are filled and not yet done with
\* by a finished write are at most max_workers + 1: at most one in the
\* hands of the dispatch thread, which fills it before it asks submit for a
\* slot, and at most max_workers with the accepted unfinished jobs.
C17_BoundedBuffers ==
    /\ Cardinality(FilledBuffers) <= self.max_workers + 1
    /\ Cardinality({jobs[j].args.region : j \in Unfinished})
          <= self.max_workers
    /\ pc # "submit" => Cardinality(FilledBuffers) <= self.max_workers
    /\ \A j \in Unfinished : pc = "submit" => call.region # jobs[j].args.region

\* C17 witness: max_workers + 1 buffers, one of them with the dispatch
\* thread, which submit keeps waiting
C17_Witness ==
    /\ pc = "submit"
    /\ Cardinality(FilledBuffers) = self.max_workers + 1
    /\ ~ENABLED Submit

(***************************************************************************)
(* Directories and datasets of a level.                                    *)
(***************************************************************************)
\* the directory a tile file lies in
ColumnOf(filename) == Path("column", filename.level, filename.x, -1, "")

\* the level in progress is planned: from line 328 to line 361
LevelPlanned == pc = "request" \/ InLoop \/ pc = "wait"

\* C18: when the regions of a level are about to be requested, and from
\* then on, a discrete format has the column directory of every tile of the
\* level, so that of every job, and no dataset; a chunked format has the
\* dataset of the level and no column directory. Planning a level never
\* raises: a column directory that exists is not created again.
C18_DirectoriesFirst ==
    /\ pc = "raised" => engine.IMAGE_VALID_DATA_ENVELOPES = None
    /\ LevelPlanned =>
          IF IsChunked(self.file_type)
          THEN /\ \A d \in dirs : d.kind # "column"
               /\ \E d \in datasets : /\ d.key = resolution
                                       /\ d.store = tile_directory
          ELSE /\ datasets = {}
               /\ tile_directory \in dirs
               /\ LET identifiers == IdentifiersOfLevel
                  IN  \A k \in 1..Len(patches) :
                        ColumnOf(get_tile_filename(
                            self.file_type, tile_directory,
                            identifiers[k][1] * self.tile_width,
                            identifiers[k][2] * self.tile_height))
                          \in dirs
               /\ \A a \in LevelJobs : ColumnOf(a.filename) \in dirs
    /\ \A j \in Running :
          ~IsChunked(self.file_type) => ColumnOf(jobs[j].args.filename) \in dirs

\* C18 witness: the regions of a level of one column and two rows of
\* discrete tiles are about to be requested: the column directory was
\* there when the second row asked for it
C18_Witness ==
    /\ pc = "request"
    /\ ~IsChunked(self.file_type)
    /\ x_tiles = 1
    /\ y_tiles = 2
    /\ Path("column", resolution, 0, -1, "") \in dirs

(***************************************************************************)
(* The index range a job writes of the dataset of its level.               *)
(***************************************************************************)
\* the dataset of the level in progress
DatasetOfLevel == CHOOSE d \in datasets : d.key = resolution

\* the job made up last is one of the level in progress
Measured == Planned /\ call.region # 0 /\ call.resolution = resolution

\* C19: with a chunked store, the range [y_start, y_start + height) x
\* [x_start, x_start + width) of every job lies inside the dataset of the
\* level, which is resolutionYEnd + 1 by resolutionXEnd + 1, and the job is
\* no larger than a tile; the start is the grid position times the tile
\* size and the size comes from the view range, which is the requested
\* patch or narrower.
C19_WriteInsideDataset ==
    (Measured /\ IsChunked(self.file_type)) =>
        /\ DatasetOfLevel.shape
              = <<3, resolutionYEnd + 1, resolutionXEnd + 1>>
        /\ call.x_start = IdentifiersOfLevel[call.region][1] * self.tile_width
        /\ call.y_start
              = IdentifiersOfLevel[call.region][2] * self.tile_height
        /\ call.tile_width
              = 1 + ((call.view_range[2] - call.view_range[1])
                        \div dim_ranges[1][2])
        /\ call.tile_height
              = 1 + ((call.view_range[4] - call.view_range[3])
                        \div dim_ranges[2][2])
        /\ call.x_start >= 0 /\ call.y_start >= 0
        /\ call.tile_width >= 1 /\ call.tile_height >= 1
        /\ call.tile_width <= self.tile_width
        /\ call.tile_height <= self.tile_height
        /\ call.x_start + call.tile_width <= DatasetOfLevel.shape[3]
        /\ call.y_start + call.tile_height <= DatasetOfLevel.shape[2]

\* C19 witness: the job of the last column, cut short at the image end and
\* decoded as requested, ends at the last column of the dataset
C19_Witness ==
    /\ Measured
    /\ IsChunked(self.file_type)
    /\ call.view_range = patches[call.region]
    /\ call.x_start > 0
    /\ call.tile_width < self.tile_width
    /\ call.x_start + call.tile_width = DatasetOfLevel.shape[3]

(***************************************************************************)
(* The engine handle.                                                      *)
(***************************************************************************)
\* the command has ended: by an exception of the call of WriteTiles, or by
\* leaving the with block
RunEnded == pc \in {"TypeError", "exited"}

\* the dispatch thread is inside write_pyramid, where the engine is asked
\* for dimension ranges, regions and pixels
InWritePyramid ==
    pc \in {"start", "plan", "request", "while", "for", "submit",
            "add_done_callback", "wait"}

\* C20: the engine is opened once per run, before any level is begun, and
\* closed once when the run ends, after a normal finish and after an error
\* of write_pyramid alike; it is open whenever write_pyramid asks it
\* something, and nothing is asked after the close.
C20_EngineLifecycle ==
    /\ engine.opens <= 1
    /\ engine.closes <= engine.opens
    /\ pc # "write_tiles" => engine.opens = 1
    /\ begun # <<>> => engine.opens = 1
    /\ InWritePyramid => /\ engine.opens = 1
                         /\ engine.closes = 0
    /\ RunEnded => /\ engine.opens = 1
                   /\ engine.closes = 1
    /\ engine.closes = 1 => RunEnded

====
